---- MODULE Spec2Model ----
(***************************************************************************)
(* Model of the Data-Analyst-Agent server: the request handler             *)
(* analyze_data (main.py) and the generate-execute-repair loop             *)
(* DataAnalystAgent.run (agent.py).                                        *)
(*                                                                         *)
(* Text is modelled as sequences: a filename or a variable name is a       *)
(* sequence of one-character strings, a model response is a sequence of    *)
(* tokens.  A script is modelled by what it does to its scope when it is   *)
(* executed.                                                               *)
(***************************************************************************)
EXTENDS Integers, Sequences, FiniteSets, TLC

\* ------------------------------------------------------------------ bounds
\* Largest max_retries a DataAnalystAgent is constructed with in the model
\* (the default, 3, is agent.py:31).
MaxRetries == 3
\* Largest number of parts of a multipart form.
MaxParts == 2
\* Seconds that pass in one step of the clock.
TickLen == 200

\* main.py:8
REQUEST_TIMEOUT == 175

\* The requests the server receives.
Requests == {1, 2}
\* No request: the event-loop thread is free.
NoReq == 0

\* ------------------------------------------------------------- file names
\* re.sub(r'[^a-zA-Z0-9_]', '_', ...): the characters the class keeps.
WordChars ==
  { "a","b","c","d","e","f","g","h","i","j","k","l","m","n","o","p","q","r",
    "s","t","u","v","w","x","y","z",
    "A","B","C","D","E","F","G","H","I","J","K","L","M","N","O","P","Q","R",
    "S","T","U","V","W","X","Y","Z",
    "0","1","2","3","4","5","6","7","8","9","_" }

\* variable_name = re.sub(r'[^a-zA-Z0-9_]', '_', file.filename)
Sanitize(fn) == [i \in 1..Len(fn) |-> IF fn[i] \in WordChars THEN fn[i] ELSE "_"]

\* str.endswith
EndsWith(s, suf) ==
  /\ Len(s) >= Len(suf)
  /\ SubSeq(s, Len(s) - Len(suf) + 1, Len(s)) = suf

CsvSuffix == <<".", "c", "s", "v">>

\* The names _create_execution_scope binds before the file context.
N_pd == <<"p","d">>
N_np == <<"n","p">>
N_plt == <<"p","l","t">>
N_sns == <<"s","n","s">>
N_duckdb == <<"d","u","c","k","d","b">>
N_requests == <<"r","e","q","u","e","s","t","s">>
N_BeautifulSoup == <<"B","e","a","u","t","i","f","u","l","S","o","u","p">>
N_io == <<"i","o">>
N_base64 == <<"b","a","s","e","6","4">>
N_re == <<"r","e">>
N_result == <<"r","e","s","u","l","t">>

LibNames ==
  { N_pd, N_np, N_plt, N_sns, N_duckdb, N_requests, N_BeautifulSoup,
    N_io, N_base64, N_re }

\* ------------------------------------------------------- multipart forms
\* One entry of form.items(): the field name and, for a file part, the
\* UploadFile (its filename, and whether its bytes parse as delimited data).
\* A plain field is a str: it has no filename attribute.
QuestionKey == "questions.txt"

QPart ==
  [key |-> QuestionKey, isFile |-> TRUE, filename |-> <<"q",".","t","x","t">>,
   parses |-> FALSE]
QCsvPart ==
  [key |-> QuestionKey, isFile |-> TRUE, filename |-> <<"q",".","c","s","v">>,
   parses |-> TRUE]
QBadCsvPart ==
  [key |-> QuestionKey, isFile |-> TRUE, filename |-> <<"q",".","c","s","v">>,
   parses |-> FALSE]
CsvPart ==
  [key |-> "data", isFile |-> TRUE, filename |-> <<"d",".","c","s","v">>,
   parses |-> TRUE]
BadCsvPart ==
  [key |-> "data", isFile |-> TRUE, filename |-> <<"d",".","c","s","v">>,
   parses |-> FALSE]
ResultPart ==
  [key |-> "extra", isFile |-> TRUE, filename |-> N_result, parses |-> FALSE]
FieldPart ==
  [key |-> "note", isFile |-> FALSE, filename |-> <<>>, parses |-> FALSE]

Parts ==
  { QPart, QCsvPart, QBadCsvPart, CsvPart, BadCsvPart, ResultPart, FieldPart }

\* form.items() iterates a dict: the field names are distinct.
Forms ==
  { f \in UNION { [1..n -> Parts] : n \in 0..MaxParts } :
      \A i, j \in DOMAIN f : f[i].key = f[j].key => i = j }

HasQuestion(f) == \E i \in DOMAIN f : f[i].key = QuestionKey
HasPlainField(f) == \E i \in DOMAIN f : ~f[i].isFile

\* The entries of a sequence that satisfy a test, in order.
RECURSIVE SelectKey(_, _, _)
SelectKey(f, k, want) ==
  IF f = <<>> THEN <<>>
  ELSE (IF (f[1].key = k) = want THEN <<f[1]>> ELSE <<>>)
         \o SelectKey(Tail(f), k, want)

\* all_files = [questions_txt] + other_files   (main.py:31-47)
AllFiles(f) == SelectKey(f, QuestionKey, TRUE) \o SelectKey(f, QuestionKey, FALSE)

\* ----------------------------------------------------------------- values
\* A Python value a script may leave in result: a tag and a payload, the
\* payload of a list being the sequence of its items and of a dict the
\* sequence of its <<key, value>> pairs.
VNone == [t |-> "None", v |-> <<>>]
VObject == [t |-> "object", v |-> <<>>]
VFloat(x) == [t |-> "float", v |-> <<x>>]
VInt(x) == [t |-> "int", v |-> <<x>>]
VBool(x) == [t |-> "bool", v |-> <<x>>]
VStr(x) == [t |-> "str", v |-> <<x>>]
VNpFloat(x) == [t |-> "np.floating", v |-> <<x>>]
VNpInt(x) == [t |-> "np.integer", v |-> <<x>>]
VNpBool(x) == [t |-> "np.bool_", v |-> <<x>>]
VList(items) == [t |-> "list", v |-> items]
VDict(pairs) == [t |-> "dict", v |-> pairs]

\* DataAnalystAgent._convert_to_native_types
\* A conversion that returns its argument as it is: with it in place of
\* _convert_to_native_types, a numeric-library scalar reaches the outcome.
ConvertNothing(data) == data

RECURSIVE ConvertToNativeTypes(_)
ConvertToNativeTypes(data) ==
  IF data.t = "list"
    THEN VList([i \in DOMAIN data.v |-> ConvertToNativeTypes(data.v[i])])
  ELSE IF data.t = "dict"
    THEN VDict([i \in DOMAIN data.v |->
                  <<data.v[i][1], ConvertToNativeTypes(data.v[i][2])>>])
  ELSE IF data.t = "np.integer" THEN [t |-> "int", v |-> data.v]
  ELSE IF data.t = "np.floating" THEN [t |-> "float", v |-> data.v]
  ELSE IF data.t = "np.bool_" THEN [t |-> "bool", v |-> data.v]
  ELSE data

\* What JSONResponse(content=...) can render (json.dumps of the value).
RECURSIVE JsonSerializable(_)
JsonSerializable(val) ==
  IF val.t = "list"
    THEN \A i \in DOMAIN val.v : JsonSerializable(val.v[i])
  ELSE IF val.t = "dict"
    THEN \A i \in DOMAIN val.v :
           /\ val.v[i][1].t \in {"None", "int", "float", "bool", "str", "np.floating"}
           /\ JsonSerializable(val.v[i][2])
  ELSE val.t \in {"None", "int", "float", "bool", "str"}

\* ---------------------------------------------------------------- scripts
\* What a generated script does when exec runs it: consume reads every
\* byte buffer it was given to the end and changes every table in place,
\* rebind rebinds names of its scope, assign stores value in result,
\* and raises is how it ends.
Scripts ==
  [ s_ok |->
      [consume |-> FALSE, rebind |-> FALSE, assign |-> TRUE,
       value |-> VList(<<VNpFloat(15)>>), raises |-> "none"],
    s_noresult |->
      [consume |-> TRUE, rebind |-> FALSE, assign |-> FALSE,
       value |-> VNone, raises |-> "none"],
    s_object |->
      [consume |-> FALSE, rebind |-> FALSE, assign |-> TRUE,
       value |-> VObject, raises |-> "none"],
    s_fail |->
      [consume |-> TRUE, rebind |-> TRUE, assign |-> TRUE,
       value |-> VInt(1), raises |-> "ValueError"],
    s_exit |->
      [consume |-> FALSE, rebind |-> FALSE, assign |-> FALSE,
       value |-> VNone, raises |-> "SystemExit"] ]

ScriptNames == DOMAIN Scripts

\* The exceptions except Exception catches (agent.py:97, main.py:69):
\* SystemExit, KeyboardInterrupt and GeneratorExit derive from
\* BaseException only.
IsException(exc) == exc \notin {"SystemExit", "KeyboardInterrupt", "GeneratorExit"}

\* -------------------------------------------------------- model responses
\* response.text as a sequence of tokens: the opener of a fenced python
\* block, a newline, a fence, prose, or the text of a script.
Opener == "FENCE_PYTHON"
\* A fence line that holds the opener but no newline right after it (a
\* block opened as python3).
Opener3 == "FENCE_PYTHON3"
Newline == "NL"
Fence == "FENCE"
Prose == "PROSE"
Fenced(s) == <<Opener, Newline, s, Newline, Fence>>
Bare(s) == <<s>>
BadFence(s) == <<Opener3, Newline, s, Newline, Fence>>

\* Tokens whose text contains the opener, and those that begin with a fence.
ContainsOpener(tok) == tok \in {Opener, Opener3}
BeginsFence(tok) == tok \in {Fence, Opener, Opener3}

\* The test of agent.py:81: the opener occurs in generated_code.
HasOpener(text) == \E i \in DOMAIN text : ContainsOpener(text[i])

\* The places where opener-newline starts, and where newline-fence starts.
OpenerAt(text, i) ==
  i \in DOMAIN text /\ i + 1 \in DOMAIN text
    /\ text[i] = Opener /\ text[i + 1] = Newline
CloserAt(text, i) ==
  i \in DOMAIN text /\ i + 1 \in DOMAIN text
    /\ text[i] = Newline /\ BeginsFence(text[i + 1])

Least(S) == CHOOSE x \in S : \A y \in S : x <= y

\* split(opener-newline)[1]: from the first opener to the next (or the end).
AfterOpener(text) ==
  LET opens == { i \in DOMAIN text : OpenerAt(text, i) }
      first == Least(opens)
      later == { i \in opens : i > first + 1 }
      stop == IF later = {} THEN Len(text) ELSE Least(later) - 1
  IN SubSeq(text, first + 2, stop)

\* split(newline-fence)[0]
BeforeCloser(seg) ==
  LET closes == { i \in DOMAIN seg : CloserAt(seg, i) }
  IN IF closes = {} THEN seg ELSE SubSeq(seg, 1, Least(closes) - 1)

\* agent.py:81-82.  split(...)[1] raises IndexError when the text holds
\* the opener but never the opener followed by a newline.
ExtractRaises(text) ==
  HasOpener(text) /\ { i \in DOMAIN text : OpenerAt(text, i) } = {}
ExtractCode(text) ==
  IF HasOpener(text) THEN BeforeCloser(AfterOpener(text)) ELSE text

\* The script texts of a piece of code, blank lines dropped.
CodeLines(code) == SelectSeq(code, LAMBDA tok : tok # Newline)
\* exec compiles the code first: prose or a stray fence is a SyntaxError.
Compiles(code) == \A i \in DOMAIN code : code[i] \in ScriptNames \cup {Newline}

\* The texts the model service answers with.
ModelTexts == { Fenced(s) : s \in ScriptNames } \cup { BadFence("s_ok") }

\* ----------------------------------------------------------- file context
\* A dict that keeps insertion order: the keys in order, and the object
\* bound to each.  An object is the table or byte buffer built from the
\* uploaded file number file; pos is the read position of a buffer (0 is
\* the start, 1 the end) and changed tells that a script changed the
\* object in place.  The objects are shared by reference with every scope
\* built from the context.
EmptyContext == [keys |-> <<>>, obj |-> <<>>]

Range(seq) == { seq[i] : i \in DOMAIN seq }

\* An assignment that does not replace the object of a key the dict holds:
\* with it in place of context[variable_name] = ..., the first of two files
\* with one variable name is the one kept.
PutKeepsFirst(context, k, o) ==
  IF k \in Range(context.keys) THEN context
  ELSE [keys |-> Append(context.keys, k), obj |-> (k :> o) @@ context.obj]

\* context[variable_name] = ...
Put(context, k, o) ==
  [keys |-> IF k \in Range(context.keys) THEN context.keys
            ELSE Append(context.keys, k),
   obj |-> (k :> o) @@ context.obj]

\* The body of the for loop of _prepare_file_context (agent.py:129-140) for
\* the files from number i on.  acc.pos collects the read position each
\* uploaded file is left at: file.file.seek(0) is skipped when read_csv
\* raises.
RECURSIVE PrepareFrom(_, _, _)
PrepareFrom(files, i, acc) ==
  IF i > Len(files) THEN acc
  ELSE
    LET file == files[i]
        variable_name == Sanitize(file.filename)
        isCsv == EndsWith(file.filename, CsvSuffix)
        o == [kind |-> IF isCsv THEN "DataFrame" ELSE "BytesIO",
              file |-> i, pos |-> 0, changed |-> FALSE]
    IN IF isCsv /\ ~file.parses
         THEN PrepareFrom(files, i + 1, [acc EXCEPT !.pos = Append(@, 1)])
         ELSE PrepareFrom(files, i + 1,
                [context |-> Put(acc.context, variable_name, o),
                 pos |-> Append(acc.pos, 0)])

\* DataAnalystAgent._prepare_file_context
\* A preparation that keeps no file: with it in place of
\* _prepare_file_context, the question part is not a variable of the scripts.
PrepareNoFile(uploaded_files) ==
  [context |-> EmptyContext, pos |-> [i \in 1..Len(uploaded_files) |-> 0]]

\* A preparation that gives up when one file fails: with it in place of
\* _prepare_file_context, a failing file takes the other files with it.
PrepareGivesUp(uploaded_files) ==
  IF \E i \in DOMAIN uploaded_files :
       EndsWith(uploaded_files[i].filename, CsvSuffix) /\ ~uploaded_files[i].parses
    THEN [context |-> EmptyContext, pos |-> [i \in 1..Len(uploaded_files) |-> 0]]
    ELSE PrepareFrom(uploaded_files, 1, [context |-> EmptyContext, pos |-> <<>>])

PrepareFileContext(uploaded_files) ==
  PrepareFrom(uploaded_files, 1, [context |-> EmptyContext, pos |-> <<>>])

\* -------------------------------------------------------- execution scope
\* A binding of the scope: a library, None, a reference to an object of
\* the file context, or a value.
BLib(n) == [t |-> "lib", v |-> n]
BNone == [t |-> "None", v |-> <<>>]
BFile(k) == [t |-> "file", v |-> k]
BVal(x) == [t |-> "val", v |-> x]

\* DataAnalystAgent._create_execution_scope: the literal, then
\* scope.update(file_context).
CreateExecutionScope(context) ==
  LET literal == [n \in LibNames \cup {N_result} |->
                    IF n = N_result THEN BNone ELSE BLib(n)]
      update == [k \in Range(context.keys) |-> BFile(k)]
  IN update @@ literal

\* What a script sees when it starts: each name with its binding, a file
\* variable with the state of its object.
ScopeView(scope, context) ==
  [n \in DOMAIN scope |->
     IF scope[n].t = "file" THEN [t |-> "file", v |-> context.obj[scope[n].v]]
     ELSE scope[n]]

\* exec of one script in a scope: the scope and the objects after it, and
\* the exception it raised ("none" when it ran to completion).
RunScript(s, st) ==
  LET sc == Scripts[s]
      held == { n \in DOMAIN st.scope : st.scope[n].t = "file" }
      touched == { st.scope[n].v : n \in held }
      objs == IF sc.consume
                THEN [k \in DOMAIN st.context.obj |->
                        IF k \in touched
                          THEN [st.context.obj[k] EXCEPT !.pos = 1, !.changed = TRUE]
                          ELSE st.context.obj[k]]
                ELSE st.context.obj
      rebound == IF sc.rebind
                   THEN [n \in DOMAIN st.scope |->
                           IF n \in held \cup {N_pd} THEN BVal(VNone)
                           ELSE st.scope[n]]
                   ELSE st.scope
      assigned == IF sc.assign THEN [rebound EXCEPT ![N_result] = BVal(sc.value)]
                  ELSE rebound
  IN [scope |-> assigned,
      context |-> [st.context EXCEPT !.obj = objs],
      set |-> st.set \/ sc.assign,
      raised |-> sc.raises]

\* exec(generated_code, execution_scope): the scripts of the code in order,
\* up to the first that raises.
RECURSIVE RunLines(_, _)
RunLines(lines, st) ==
  IF lines = <<>> \/ st.raised # "none" THEN st
  ELSE RunLines(Tail(lines), RunScript(Head(lines), st))

\* The value of a binding: execution_scope.get("result").
ValueOf(b) ==
  IF b.t = "val" THEN b.v
  ELSE IF b.t = "None" THEN VNone
  ELSE VObject

\* ---------------------------------------------------------------- prompts
NoTrace == [req |-> NoReq, attempt |-> 0, exc |-> "none"]
\* self.last_debug_prompt = ""   (agent.py:38)
EmptyPrompt ==
  [kind |-> "empty", question |-> NoReq, names |-> <<>>, code |-> <<>>,
   trace |-> NoTrace]
\* user_prompt (agent.py:59-67): the question and list(file_context.keys()).
UserPrompt(question, context) ==
  [kind |-> "initial", question |-> question, names |-> context.keys,
   code |-> <<>>, trace |-> NoTrace]
\* self.last_debug_prompt (agent.py:105-119): the faulty code and the trace.
DebugPrompt(code, trace) ==
  [kind |-> "debug", question |-> NoReq, names |-> <<>>, code |-> code,
   trace |-> trace]

\* --------------------------------------------------------------- outcomes
NoMessage == [text |-> "none", retries |-> 0, trace |-> NoTrace]
NoOutcome == [status |-> "none", result |-> VNone, message |-> NoMessage]
\* agent.py:95
SuccessOutcome(x) == [status |-> "success", result |-> x, message |-> NoMessage]
\* agent.py:103
ExhaustedOutcome(n, trace) ==
  [status |-> "error", result |-> VNone,
   message |-> [text |-> "Agent failed after n attempts. Last error: ",
                retries |-> n, trace |-> trace]]
\* agent.py:121
NoScriptOutcome ==
  [status |-> "error", result |-> VNone,
   message |-> [text |-> "Agent failed to produce a working script.",
                retries |-> 0, trace |-> NoTrace]]

\* -------------------------------------------------------------- responses
NoResponse == [status |-> 0, detail |-> "none", value |-> VNone, message |-> NoMessage]
Reply(status, detail) ==
  [status |-> status, detail |-> detail, value |-> VNone, message |-> NoMessage]

\* No exec yet.
NoExec == [raised |-> "none", ran |-> FALSE, set |-> FALSE]

\* ------------------------------------------------------------------ state
VARIABLES
  max_retries,        \* agent.max_retries of the one agent of the process
  last_debug_prompt,  \* agent.last_debug_prompt
  loop,               \* the request whose code holds the event-loop thread
  pc,                 \* where the handler of each request is
  form,               \* the form a handler was iterating when it raised
  all_files,          \* the handler's all_files
  elapsed,            \* seconds since wait_for was called, per request
  response,           \* the answer each request got
  runpc,              \* where agent.run of each request is
  attempt,            \* run's loop variable
  file_context,       \* run's file_context
  file_pos,           \* read position of each uploaded file
  user_prompt,        \* run's user_prompt
  chat,               \* the messages sent to run's chat_session, in order
  generated_code,     \* run's generated_code
  execution_scope,    \* the scope of the last exec
  outcome,            \* what run returned
  first_view,         \* what the script of attempt 0 sees when it starts
  last_view,          \* what the script of the last exec saw when it started
  executed,           \* how many times run called exec
  errors,             \* the error_traceback of each failed attempt, in order
  last_exec           \* how the last exec ended, and whether it set result

agentVars == <<max_retries, last_debug_prompt>>
handlerVars == <<pc, form, all_files, elapsed, response>>
runVars ==
  <<runpc, attempt, file_context, file_pos, user_prompt, chat, generated_code,
    execution_scope, outcome, first_view, last_view, executed, errors,
    last_exec>>
vars == <<agentVars, loop, handlerVars, runVars>>

\* agent = DataAnalystAgent()   (main.py:15, agent.py:31-38), and no request
\* received yet.
Init ==
  /\ max_retries \in 0..MaxRetries
  /\ last_debug_prompt = EmptyPrompt
  /\ loop = NoReq
  /\ pc = [r \in Requests |-> "idle"]
  /\ form = [r \in Requests |-> <<>>]
  /\ all_files = [r \in Requests |-> <<>>]
  /\ elapsed = [r \in Requests |-> 0]
  /\ response = [r \in Requests |-> NoResponse]
  /\ runpc = [r \in Requests |-> "none"]
  /\ attempt = [r \in Requests |-> 0]
  /\ file_context = [r \in Requests |-> EmptyContext]
  /\ file_pos = [r \in Requests |-> <<>>]
  /\ user_prompt = [r \in Requests |-> EmptyPrompt]
  /\ chat = [r \in Requests |-> <<>>]
  /\ generated_code = [r \in Requests |-> <<>>]
  /\ execution_scope = [r \in Requests |-> <<>>]
  /\ outcome = [r \in Requests |-> NoOutcome]
  /\ first_view = [r \in Requests |-> <<>>]
  /\ last_view = [r \in Requests |-> <<>>]
  /\ executed = [r \in Requests |-> 0]
  /\ errors = [r \in Requests |-> <<>>]
  /\ last_exec = [r \in Requests |-> NoExec]

\* ---------------------------------------------------------------- handler
\* A request reaches the server.  Its handler runs when the event loop
\* schedules it.
Arrive(r) ==
  /\ pc[r] = "idle"
  /\ \A q \in Requests : q < r => pc[q] # "idle"
  /\ pc' = [pc EXCEPT ![r] = "arrived"]
  /\ UNCHANGED <<agentVars, loop, form, all_files, elapsed, response, runVars>>

\* analyze_data up to all_files (main.py:25-47), on the event-loop thread.
\* value.filename (main.py:33) raises AttributeError for a plain field,
\* whose value is a str: the exception is outside the try and the server
\* answers 500.
HandleForm(r, f) ==
  /\ pc[r] = "arrived"
  /\ loop = NoReq
  /\ IF HasPlainField(f)
       THEN /\ pc' = [pc EXCEPT ![r] = "refused"]
            /\ form' = [form EXCEPT ![r] = f]
            /\ response' = [response EXCEPT ![r] = Reply(500, "Internal Server Error")]
            /\ UNCHANGED all_files
     ELSE IF ~HasQuestion(f)
       THEN /\ pc' = [pc EXCEPT ![r] = "refused"]
            /\ form' = [form EXCEPT ![r] = f]
            /\ response' =
                 [response EXCEPT ![r] = Reply(400, "questions.txt file is missing.")]
            /\ UNCHANGED all_files
     ELSE /\ pc' = [pc EXCEPT ![r] = "ready"]
          /\ all_files' = [all_files EXCEPT ![r] = AllFiles(f)]
          /\ UNCHANGED <<form, response>>
  /\ UNCHANGED <<agentVars, loop, elapsed, runVars>>

\* The start of the for loop of run (agent.py:71): with nothing to iterate
\* run returns at agent.py:121 at once.
EnterLoop(r) ==
  IF max_retries = 0
    THEN /\ runpc' = [runpc EXCEPT ![r] = "returned"]
         /\ outcome' = [outcome EXCEPT ![r] = NoScriptOutcome]
         /\ loop' = NoReq
    ELSE /\ runpc' = [runpc EXCEPT ![r] = "attempt"]
         /\ UNCHANGED outcome
         /\ loop' = r

\* main.py:50-57 and 72-77, agent.py:57-71: the question is decoded, wait_for
\* starts its timer and run_agent_async calls agent.run, which prepares the
\* file context, the first prompt and the chat session.  run_agent_async
\* holds no await: agent.run runs on the event-loop thread.
\* A handler whose agent.run has returned answers before another analysis
\* starts: Respond changes only what belongs to its own request, so a step
\* of another request that came first gives the same states after both.
StartAnalysis(r, decodes) ==
  /\ pc[r] = "ready"
  /\ loop = NoReq
  /\ \A q \in Requests : runpc[q] \notin {"returned", "raised"}
  /\ IF ~decodes
       THEN \* UnicodeDecodeError, caught at main.py:69
            /\ pc' = [pc EXCEPT ![r] = "done"]
            /\ response' =
                 [response EXCEPT ![r] =
                    Reply(500, "An unexpected error occurred: UnicodeDecodeError")]
            /\ UNCHANGED <<loop, elapsed, runVars>>
       ELSE LET prepared == PrepareFileContext(all_files[r])
            IN /\ pc' = [pc EXCEPT ![r] = "waiting"]
               /\ elapsed' = [elapsed EXCEPT ![r] = 0]
               /\ file_context' = [file_context EXCEPT ![r] = prepared.context]
               /\ file_pos' = [file_pos EXCEPT ![r] = prepared.pos]
               /\ user_prompt' = [user_prompt EXCEPT ![r] = UserPrompt(r, prepared.context)]
               /\ chat' = [chat EXCEPT ![r] = <<>>]
               /\ attempt' = [attempt EXCEPT ![r] = 0]
               /\ first_view' =
                    [first_view EXCEPT ![r] =
                       ScopeView(CreateExecutionScope(prepared.context),
                                 prepared.context)]
               /\ EnterLoop(r)
               /\ UNCHANGED <<response, generated_code, execution_scope,
                              last_view, executed, errors, last_exec>>
  /\ UNCHANGED <<agentVars, form, all_files>>

\* ------------------------------------------------------------------- run
\* A choice that sends the first prompt again on every attempt: with it in
\* place of agent.py:75, the model never sees the faulty script and trace.
PromptAlwaysInitial(r) == user_prompt[r]

\* prompt_to_send (agent.py:75)
PromptToSend(r) == IF attempt[r] = 0 THEN user_prompt[r] ELSE last_debug_prompt

\* error_traceback of the exception exc raised in attempt n of request r.
Traceback(r, n, exc) == [req |-> r, attempt |-> n, exc |-> exc]

\* attempt == self.max_retries - 1   (agent.py:101)
\* A test that gives up one attempt early: with it in place of the test of
\* agent.py:101, an exhausted run has made fewer than max_retries attempts.
IsLastAttemptOneEarly(r) == attempt[r] >= max_retries - 2

IsLastAttempt(r) == attempt[r] = max_retries - 1

\* The except clause (agent.py:97-119) for an exception raised in the try
\* while generated_code held code: the last attempt returns the failure,
\* any other stores the follow-up prompt and goes on with the next one.
HandleError(r, code, exc) ==
  LET error_traceback == Traceback(r, attempt[r], exc)
  IN /\ errors' = [errors EXCEPT ![r] = Append(@, error_traceback)]
     /\ IF IsLastAttempt(r)
       THEN /\ outcome' =
                 [outcome EXCEPT ![r] = ExhaustedOutcome(max_retries, error_traceback)]
            /\ runpc' = [runpc EXCEPT ![r] = "returned"]
            /\ loop' = NoReq
            /\ UNCHANGED <<last_debug_prompt, attempt>>
       ELSE /\ last_debug_prompt' = DebugPrompt(code, error_traceback)
            /\ attempt' = [attempt EXCEPT ![r] = @ + 1]
            /\ runpc' = [runpc EXCEPT ![r] = "attempt"]
            /\ UNCHANGED <<outcome, loop>>

\* One pass of the for loop in which the model call raises (network,
\* quota, a response without text): agent.py:73-78 and 97-119.
\* generated_code is still "".
AttemptModelFails(r) ==
  /\ runpc[r] = "attempt"
  /\ loop = r
  /\ chat' = [chat EXCEPT ![r] = Append(@, PromptToSend(r))]
  /\ generated_code' = [generated_code EXCEPT ![r] = <<>>]
  /\ HandleError(r, <<>>, "ApiError")
  /\ UNCHANGED <<max_retries, handlerVars, file_context, file_pos, user_prompt,
                 execution_scope, first_view, last_view, executed, last_exec>>

\* One pass of the for loop in which the model answers the prompt with
\* text: agent.py:73-95 and 97-119.  The script is taken out of the
\* response, a fresh scope is built from the file context and the script is
\* executed in it.  An exception that is not an Exception (SystemExit)
\* passes the except clause and leaves run.
Attempt(r, text) ==
  /\ runpc[r] = "attempt"
  /\ loop = r
  /\ chat' = [chat EXCEPT ![r] = Append(@, PromptToSend(r))]
  /\ IF ExtractRaises(text)
       THEN /\ generated_code' = [generated_code EXCEPT ![r] = text]
            /\ HandleError(r, text, "IndexError")
            /\ UNCHANGED <<file_context, execution_scope, first_view, last_view,
                           executed, last_exec>>
       ELSE
         LET code == ExtractCode(text)
             scope == CreateExecutionScope(file_context[r])
             view == ScopeView(scope, file_context[r])
             start == [scope |-> scope, context |-> file_context[r], set |-> FALSE,
                       raised |-> "none"]
             end == IF Compiles(code) THEN RunLines(CodeLines(code), start)
                    ELSE [start EXCEPT !.raised = "SyntaxError"]
         IN /\ generated_code' = [generated_code EXCEPT ![r] = code]
            /\ execution_scope' = [execution_scope EXCEPT ![r] = end.scope]
            /\ file_context' = [file_context EXCEPT ![r] = end.context]
            /\ last_view' = [last_view EXCEPT ![r] = view]
            /\ executed' = [executed EXCEPT ![r] = @ + 1]
            /\ last_exec' = [last_exec EXCEPT ![r] =
                               [raised |-> end.raised, ran |-> TRUE, set |-> end.set]]
            /\ IF end.raised = "none"
                 THEN /\ outcome' =
                           [outcome EXCEPT ![r] =
                              SuccessOutcome(
                                ConvertToNativeTypes(ValueOf(end.scope[N_result])))]
                      /\ runpc' = [runpc EXCEPT ![r] = "returned"]
                      /\ loop' = NoReq
                      /\ UNCHANGED <<last_debug_prompt, attempt, errors>>
               ELSE IF IsException(end.raised)
                 THEN HandleError(r, code, end.raised)
               ELSE /\ runpc' = [runpc EXCEPT ![r] = "raised"]
                    /\ loop' = NoReq
                    /\ UNCHANGED <<last_debug_prompt, attempt, outcome, errors>>
  /\ UNCHANGED <<max_retries, handlerVars, file_pos, user_prompt, first_view>>

\* ------------------------------------------------------- wait_for, answer
\* Time passes while agent.run works (a model call or a script takes
\* long); the clock of a pending wait_for is not followed past the expiry
\* of its timeout.
Tick ==
  /\ loop # NoReq
  /\ \E r \in Requests : pc[r] = "waiting" /\ elapsed[r] <= REQUEST_TIMEOUT
  /\ elapsed' = [r \in Requests |->
                   IF pc[r] = "waiting" /\ elapsed[r] <= REQUEST_TIMEOUT
                     THEN elapsed[r] + TickLen ELSE elapsed[r]]
  /\ UNCHANGED <<agentVars, loop, pc, form, all_files, response, runVars>>

\* What asyncio.wait_for(run_agent_async(...), timeout=REQUEST_TIMEOUT)
\* gives the handler when the event loop resumes it: the result of the
\* awaited coroutine when that is done, TimeoutError when it is not and
\* the timeout has expired.
WaitFor(r) ==
  IF runpc[r] = "returned" THEN "result"
  ELSE IF runpc[r] = "raised" THEN "raise"
  ELSE IF elapsed[r] >= REQUEST_TIMEOUT THEN "TimeoutError"
  ELSE "pending"

\* str(e) of the HTTPException raised at main.py:62 and caught at main.py:69.
WrappedFailure(message) ==
  [status |-> 500, detail |-> "An unexpected error occurred: 500: ",
   value |-> VNone, message |-> message]

\* The answer of main.py:59-70 to what wait_for gave the handler.  A result
\* that JSONResponse cannot render raises TypeError inside the try, and the
\* HTTPException of main.py:62 is raised inside the try too: main.py:69
\* catches both.
AnswerTo(given, out) ==
  IF given = "TimeoutError"
    THEN Reply(504, "Request timed out after REQUEST_TIMEOUT seconds.")
  ELSE IF out.status = "success"
    THEN IF JsonSerializable(out.result)
           THEN [status |-> 200, detail |-> "json", value |-> out.result,
                 message |-> NoMessage]
           ELSE Reply(500, "An unexpected error occurred: TypeError")
  ELSE WrappedFailure(out.message)

\* main.py:54-70: the handler is resumed on the event-loop thread and
\* answers.  An exception that is not an Exception passes main.py:64 and
\* main.py:69 and leaves the handler.  The locals of the handler and of
\* run end with it.
Respond(r) ==
  /\ pc[r] = "waiting"
  /\ loop = NoReq
  /\ WaitFor(r) # "pending"
  /\ IF WaitFor(r) = "raise"
       THEN /\ pc' = [pc EXCEPT ![r] = "aborted"]
            /\ UNCHANGED response
       ELSE /\ pc' = [pc EXCEPT ![r] = "done"]
            /\ response' = [response EXCEPT ![r] = AnswerTo(WaitFor(r), outcome[r])]
  /\ all_files' = [all_files EXCEPT ![r] = <<>>]
  /\ elapsed' = [elapsed EXCEPT ![r] = 0]
  /\ runpc' = [runpc EXCEPT ![r] = "none"]
  /\ attempt' = [attempt EXCEPT ![r] = 0]
  /\ file_context' = [file_context EXCEPT ![r] = EmptyContext]
  /\ file_pos' = [file_pos EXCEPT ![r] = <<>>]
  /\ user_prompt' = [user_prompt EXCEPT ![r] = EmptyPrompt]
  /\ chat' = [chat EXCEPT ![r] = <<>>]
  /\ generated_code' = [generated_code EXCEPT ![r] = <<>>]
  /\ execution_scope' = [execution_scope EXCEPT ![r] = <<>>]
  /\ outcome' = [outcome EXCEPT ![r] = NoOutcome]
  /\ first_view' = [first_view EXCEPT ![r] = <<>>]
  /\ last_view' = [last_view EXCEPT ![r] = <<>>]
  /\ executed' = [executed EXCEPT ![r] = 0]
  /\ errors' = [errors EXCEPT ![r] = <<>>]
  /\ last_exec' = [last_exec EXCEPT ![r] = NoExec]
  /\ UNCHANGED <<agentVars, loop, form>>

Next ==
  \/ \E r \in Requests : Arrive(r)
  \/ \E r \in Requests, f \in Forms : HandleForm(r, f)
  \/ \E r \in Requests, decodes \in BOOLEAN : StartAnalysis(r, decodes)
  \/ \E r \in Requests : AttemptModelFails(r)
  \/ \E r \in Requests, text \in ModelTexts : Attempt(r, text)
  \/ Tick
  \/ \E r \in Requests : Respond(r)

Spec == Init /\ [][Next]_vars

\* ------------------------------------------------- the methods on their own
\* Largest number of files _prepare_file_context is called with directly.
MaxFiles == 3

\* An uploaded file with a filename.
Upload(fn, parses) ==
  [key |-> "file", isFile |-> TRUE, filename |-> fn, parses |-> parses]

\* Filenames: a .csv name, names that differ from it in a character
\* re.sub replaces, a name with the suffix in capitals, and a name that is
\* the suffix alone.
Uploads ==
  { Upload(<<"d",".","c","s","v">>, TRUE),
    Upload(<<"d",".","c","s","v">>, FALSE),
    Upload(<<"d","_","c","s","v">>, FALSE),
    Upload(<<"d","-","c","s","v">>, FALSE),
    Upload(<<"d",".","C","S","V">>, FALSE),
    Upload(<<".","c","s","v">>, TRUE) }

UploadLists == UNION { [1..n -> Uploads] : n \in 0..MaxFiles }

\* Values a script may leave in result: leaves, lists and dicts of leaves,
\* and lists and dicts that hold those.  A dict key is a str or a
\* numeric-library integer.
Leaves ==
  { VNone, VObject, VStr(0), VInt(1), VFloat(15), VBool(1),
    VNpInt(1), VNpFloat(15), VNpBool(1) }
DictKeys == { VStr(0), VNpInt(1) }
FlatValues ==
  { VList(items) : items \in UNION { [1..n -> Leaves] : n \in 0..2 } }
    \cup { VDict(<<<<k, x>>>>) : k \in DictKeys, x \in Leaves }
NestedValues ==
  { VList(<<x>>) : x \in FlatValues }
    \cup { VDict(<<<<k, x>>>>) : k \in DictKeys, x \in FlatValues }
ResultValues == Leaves \cup FlatValues \cup NestedValues

\* agent._prepare_file_context(uploaded_files), called on its own.
CallPrepareFileContext(r, uploaded_files) ==
  /\ \A q \in Requests : pc[q] = "idle"
  /\ pc' = [pc EXCEPT ![r] = "prepared"]
  /\ all_files' = [all_files EXCEPT ![r] = uploaded_files]
  /\ file_context' =
       [file_context EXCEPT ![r] = PrepareFileContext(uploaded_files).context]
  /\ file_pos' = [file_pos EXCEPT ![r] = PrepareFileContext(uploaded_files).pos]
  /\ UNCHANGED <<agentVars, loop, form, elapsed, response, runpc, attempt,
                 user_prompt, chat, generated_code, execution_scope, outcome,
                 first_view, last_view, executed, errors, last_exec>>

\* agent.py:89-95 on its own: a script has left data in result, and
\* agent._convert_to_native_types(data) goes into the success outcome.
CallConvertToNativeTypes(r, data) ==
  /\ \A q \in Requests : pc[q] = "idle"
  /\ pc' = [pc EXCEPT ![r] = "converted"]
  /\ execution_scope' = [execution_scope EXCEPT ![r] = (N_result :> BVal(data))]
  /\ outcome' = [outcome EXCEPT ![r] = SuccessOutcome(ConvertToNativeTypes(data))]
  /\ UNCHANGED <<agentVars, loop, form, all_files, elapsed, response, runpc,
                 attempt, file_context, file_pos, user_prompt, chat,
                 generated_code, first_view, last_view, executed, errors,
                 last_exec>>

MethodNext ==
  \/ \E r \in Requests, uploaded_files \in UploadLists :
       CallPrepareFileContext(r, uploaded_files)
  \/ \E r \in Requests, data \in ResultValues : CallConvertToNativeTypes(r, data)

MethodSpec == Init /\ [][MethodNext]_vars

\* ------------------------------------------------------------- properties
\* The file variables a view holds.
FileNamesOf(view) == { n \in DOMAIN view : view[n].t = "file" }

\* conv is raw with every numeric-library scalar replaced by the equal
\* native value, at every depth.
RECURSIVE IsNativeOf(_, _)
IsNativeOf(conv, raw) ==
  IF raw.t = "list"
    THEN /\ conv.t = "list"
         /\ Len(conv.v) = Len(raw.v)
         /\ \A i \in DOMAIN raw.v : IsNativeOf(conv.v[i], raw.v[i])
  ELSE IF raw.t = "dict"
    THEN /\ conv.t = "dict"
         /\ Len(conv.v) = Len(raw.v)
         /\ \A i \in DOMAIN raw.v :
              /\ conv.v[i][1] = raw.v[i][1]
              /\ IsNativeOf(conv.v[i][2], raw.v[i][2])
  ELSE IF raw.t = "np.integer" THEN conv = [t |-> "int", v |-> raw.v]
  ELSE IF raw.t = "np.floating" THEN conv = [t |-> "float", v |-> raw.v]
  ELSE IF raw.t = "np.bool_" THEN conv = [t |-> "bool", v |-> raw.v]
  ELSE conv = raw

\* C1: a run never sends more than max_retries messages, and a run that
\* returned after every one of its attempts raised an error has made exactly
\* max_retries attempts, one message each, and returned a failure whose
\* message carries the trace of the final attempt (attempt max_retries - 1
\* of this run), not that of an earlier one.
C1_ExhaustionReturnsFinalTrace ==
  \A r \in Requests :
    /\ Len(chat[r]) <= max_retries
    /\ (runpc[r] = "returned" /\ Len(errors[r]) = Len(chat[r]))
         => /\ Len(chat[r]) = max_retries
            /\ executed[r] <= max_retries
            /\ outcome[r].status = "error"
            /\ max_retries >= 1 =>
                 /\ outcome[r].message.trace = errors[r][max_retries]
                 /\ outcome[r].message.trace.attempt = max_retries - 1
                 /\ outcome[r].message.trace.req = r
                 /\ outcome[r].message.retries = max_retries

\* C1 witness: a run returned after two or more attempts that all raised,
\* the final error being of another kind than the first.
C1_Witness ==
  \E r \in Requests :
    /\ runpc[r] = "returned"
    /\ Len(chat[r]) >= 2
    /\ Len(errors[r]) = Len(chat[r])
    /\ errors[r][1].exc # errors[r][Len(errors[r])].exc

\* C2, in each state: when the script of an attempt has run to completion
\* having set result, run has returned a success carrying that value with
\* its numeric-library scalars made native, at the attempt that follows the
\* failed ones (attempt k after k failures), having executed at most one
\* script per message.
C2_CompletionIsSuccess ==
  \A r \in Requests :
    (last_exec[r].ran /\ last_exec[r].raised = "none" /\ last_exec[r].set)
      => /\ runpc[r] = "returned"
         /\ outcome[r].status = "success"
         /\ IsNativeOf(outcome[r].result, ValueOf(execution_scope[r][N_result]))
         /\ Len(chat[r]) = Len(errors[r]) + 1
         /\ executed[r] <= Len(chat[r])

\* C2, in each step: once run has returned, no message is sent and no
\* script is executed for it any more.
C2_ReturnedIsTerminal ==
  \A r \in Requests :
    runpc[r] = "returned"
      => \/ runpc'[r] = "none"
         \/ /\ runpc'[r] = "returned"
            /\ chat'[r] = chat[r]
            /\ executed'[r] = executed[r]
            /\ outcome'[r] = outcome[r]

\* C2: if attempts 0..k-1 fail and the script of attempt k runs to
\* completion having set result, run returns a success at attempt k with
\* that value after native-type conversion, and nothing more is sent or
\* executed after that.
C2_SuccessAtAttemptK == []C2_CompletionIsSuccess /\ [][C2_ReturnedIsTerminal]_vars

\* C2 witness: a success at attempt 1 or later, with a numeric-library
\* scalar in the value the script set.
C2_Witness ==
  \E r \in Requests :
    /\ runpc[r] = "returned"
    /\ outcome[r].status = "success"
    /\ last_exec[r].set
    /\ Len(errors[r]) >= 1
    /\ ValueOf(execution_scope[r][N_result]) # outcome[r].result

\* C3: a request whose loop ran longer than REQUEST_TIMEOUT is answered 504.
C3_OverrunIsAnswered504 ==
  [][\A r \in Requests :
       (pc[r] = "waiting" /\ pc'[r] = "done" /\ elapsed[r] > REQUEST_TIMEOUT)
         => response'[r].status = 504]_vars

\* C4: an analysis in progress does not hold the event-loop thread, which
\* stays free for the handlers of other requests.
C4_RunIsOffTheEventLoop ==
  \A r \in Requests : runpc[r] = "attempt" => loop # r

\* C5: a request without a questions.txt part is answered 400, and nothing
\* of the loop has run for it.
C5_NoQuestionIs400 ==
  \A r \in Requests :
    (pc[r] = "refused" /\ ~HasQuestion(form[r]))
      => /\ response[r].status = 400
         /\ chat[r] = <<>>
         /\ file_context[r] = EmptyContext

\* C6: an outcome returned within the timeout is answered 200 with the
\* result when it is a success, and 500 with the failure message when it
\* is a failure.
C6_OutcomeDecidesAnswer ==
  [][\A r \in Requests :
       (pc[r] = "waiting" /\ pc'[r] = "done" /\ elapsed[r] < REQUEST_TIMEOUT)
         => /\ outcome[r].status = "success"
               => /\ response'[r].status = 200
                  /\ response'[r].value = outcome[r].result
            /\ outcome[r].status = "error"
               => /\ response'[r].status = 500
                  /\ response'[r].message = outcome[r].message]_vars

\* C7 as amended: for a request with the question part and no auxiliary
\* file, the file context holds one entry, the question part itself under
\* its sanitized filename; the first prompt names the question and that one
\* variable, the scope of every exec holds that one file variable, and run
\* (with max_retries >= 1) does not end before that prompt was sent first.
C7_QuestionFileIsTheContext ==
  \A r \in Requests :
    (pc[r] = "waiting" /\ Len(all_files[r]) = 1)
      => LET part == all_files[r][1]
             unparsed == EndsWith(part.filename, CsvSuffix) /\ ~part.parses
             names == IF unparsed THEN <<>> ELSE <<Sanitize(part.filename)>>
         IN /\ part.key = QuestionKey
            /\ file_context[r].keys = names
            /\ ~unparsed =>
                 file_context[r].obj[names[1]].kind =
                   IF EndsWith(part.filename, CsvSuffix) THEN "DataFrame"
                                                         ELSE "BytesIO"
            /\ user_prompt[r].kind = "initial"
            /\ user_prompt[r].question = r
            /\ user_prompt[r].names = names
            /\ executed[r] > 0 => FileNamesOf(last_view[r]) = Range(names)
            /\ Len(chat[r]) >= 1 => chat[r][1] = user_prompt[r]
            /\ (max_retries >= 1 /\ runpc[r] \in {"returned", "raised"})
                 => Len(chat[r]) >= 1

\* C7 witness: such a request, after its first script was executed.
C7_Witness ==
  \E r \in Requests :
    /\ pc[r] = "waiting"
    /\ Len(all_files[r]) = 1
    /\ Len(chat[r]) >= 1
    /\ executed[r] >= 1

\* C7 as stated: with no auxiliary file the file context is empty and the
\* first prompt lists no variable name.
C7_ContextIsEmpty ==
  \A r \in Requests :
    (pc[r] = "waiting" /\ Len(all_files[r]) = 1)
      => /\ file_context[r].keys = <<>>
         /\ user_prompt[r].names = <<>>

\* C8: no exception raised during an attempt leaves run, and run returns a
\* failure only when the retry budget is used up.
C8_NothingIsFatal ==
  \A r \in Requests :
    /\ runpc[r] # "raised"
    /\ (runpc[r] = "returned" /\ outcome[r].status = "error")
         => Len(chat[r]) = max_retries

\* C9: every exec starts with result bound to None, and a script that runs
\* to completion without setting result gives a success whose result is
\* None.
C9_ResultStartsNone ==
  \A r \in Requests :
    executed[r] > 0
      => /\ last_view[r][N_result] = BNone
         /\ (runpc[r] = "returned" /\ last_exec[r].raised = "none"
               /\ ~last_exec[r].set)
              => outcome[r].result = VNone

\* C10: every exec starts with the bindings, the file-variable contents and
\* the read positions that attempt 0 started with.
C10_AttemptsStartAlike ==
  \A r \in Requests : executed[r] > 0 => last_view[r] = first_view[r]

\* C11: the prompts a run has sent hold the question of its own request
\* and traces of its own attempts only, and while the run of a request is
\* in progress no state the runs share (the agent's attributes) holds a
\* script text or an error trace produced by another request.
C11_RunsShareNoAnalysisState ==
  \A r \in Requests :
    /\ \A i \in DOMAIN chat[r] :
         /\ chat[r][i].question \in {NoReq, r}
         /\ chat[r][i].trace.req \in {NoReq, r}
    /\ runpc[r] = "attempt" => last_debug_prompt.trace.req \in {NoReq, r}

\* C12, in each state: the messages of a run's chat session are, in attempt
\* order, the initial prompt (the question of the request and the names of
\* its file variables) and then, for each failed attempt n that was not
\* the last, a follow-up prompt with the trace of attempt n.
C12_SessionHoldsThePrompts ==
  \A r \in Requests :
    LET n == Len(chat[r])
    IN /\ runpc[r] = "attempt" => (n = attempt[r] /\ Len(errors[r]) = n)
       /\ n >= 1 =>
            /\ chat[r][1] = user_prompt[r]
            /\ chat[r][1].kind = "initial"
            /\ chat[r][1].question = r
            /\ chat[r][1].names = file_context[r].keys
       /\ \A i \in 2..n :
            /\ chat[r][i].kind = "debug"
            /\ chat[r][i].trace = errors[r][i - 1]
            /\ chat[r][i].trace.attempt = i - 2
            /\ chat[r][i].trace.req = r

\* C12, in each step: a run's session only grows at its end, by the message
\* of the attempt being made, and a follow-up prompt holds the script text
\* the attempt before it left in generated_code.
C12_NextMessage ==
  \A r \in Requests :
    \/ chat'[r] = chat[r]
    \/ chat'[r] = <<>>
    \/ /\ runpc[r] = "attempt"
       /\ Len(chat'[r]) = Len(chat[r]) + 1
       /\ SubSeq(chat'[r], 1, Len(chat[r])) = chat[r]
       /\ Len(chat[r]) >= 1 =>
            chat'[r][Len(chat'[r])].code = generated_code[r]

\* C12: attempt 0 sends the initial prompt, attempt n+1 sends the follow-up
\* prompt with the script text and the error trace of the failed attempt
\* n, and all messages of a run go in attempt order to its one session.
C12_PromptSequence == []C12_SessionHoldsThePrompts /\ [][C12_NextMessage]_vars

\* C12 witness: a run that sent three messages, the two follow-up prompts
\* holding different script texts, the last one not empty.
C12_Witness ==
  \E r \in Requests :
    /\ Len(chat[r]) >= 3
    /\ chat[r][3].code # <<>>
    /\ chat[r][2].code # chat[r][3].code

\* C13: once the file context of a request is prepared, every uploaded
\* file the preparation was given is positioned at its first byte.
C13_PositionsAreReset ==
  \A r \in Requests :
    pc[r] = "waiting"
      => /\ Len(file_pos[r]) = Len(all_files[r])
         /\ \A i \in DOMAIN file_pos[r] : file_pos[r][i] = 0

\* An uploaded file whose parsing fails, and the files of a sequence whose
\* parsing does not.
ParseFails(file) ==
  /\ Len(file.filename) >= 4
  /\ SubSeq(file.filename, Len(file.filename) - 3, Len(file.filename))
       = <<".", "c", "s", "v">>
  /\ ~file.parses
Kept(files) == SelectSeq(files, LAMBDA file : ~ParseFails(file))

\* C14: when the parsing of an uploaded file fails, run still starts its
\* loop; the first prompt and the scope of attempt 0 hold the variables the
\* other files give when they are prepared alone, each bound to an untouched
\* object of the same kind built from the same file, and none built from a
\* failing file; and run (with max_retries >= 1) does not end before a
\* message was sent.
C14_FailingFileIsLeftOut ==
  \A r \in Requests :
    (pc[r] = "waiting" /\ \E i \in DOMAIN all_files[r] : ParseFails(all_files[r][i]))
      => LET files == all_files[r]
             kept == Kept(files)
             without == PrepareFileContext(kept).context
         IN /\ runpc[r] # "none"
            /\ user_prompt[r].names = without.keys
            /\ FileNamesOf(first_view[r]) = Range(without.keys)
            /\ \A k \in Range(without.keys) :
                 LET o == first_view[r][k].v
                 IN /\ o.kind = without.obj[k].kind
                    /\ o.pos = 0
                    /\ ~o.changed
                    /\ ~ParseFails(files[o.file])
                    /\ files[o.file] = kept[without.obj[k].file]
            /\ (max_retries >= 1 /\ runpc[r] \in {"returned", "raised"})
                 => Len(chat[r]) >= 1

\* C14 witness: a request whose first file fails to parse and whose second
\* file is kept, after a message was sent.
C14_Witness ==
  \E r \in Requests :
    /\ pc[r] = "waiting"
    /\ Len(all_files[r]) = 2
    /\ ParseFails(all_files[r][1])
    /\ ~ParseFails(all_files[r][2])
    /\ Len(chat[r]) >= 1

\* The characters [A-Za-z0-9_].
NameChars ==
  { "A","B","C","D","E","F","G","H","I","J","K","L","M","N","O","P","Q","R",
    "S","T","U","V","W","X","Y","Z",
    "a","b","c","d","e","f","g","h","i","j","k","l","m","n","o","p","q","r",
    "s","t","u","v","w","x","y","z",
    "0","1","2","3","4","5","6","7","8","9","_" }

\* k is fn with every character outside [A-Za-z0-9_] replaced by "_".
IsSanitized(fn, k) ==
  /\ Len(k) = Len(fn)
  /\ \A i \in DOMAIN fn : k[i] = IF fn[i] \in NameChars THEN fn[i] ELSE "_"

\* fn ends with the four characters .csv
HasCsvSuffix(fn) ==
  /\ Len(fn) >= 4
  /\ fn[Len(fn) - 3] = "."
  /\ fn[Len(fn) - 2] = "c"
  /\ fn[Len(fn) - 1] = "s"
  /\ fn[Len(fn)] = "v"

\* C15: for files that all parse, the keys of the file context are the
\* sanitized filenames, each once and with characters of [A-Za-z0-9_]
\* only; each key is bound to the object built from the last file in
\* arrival order whose filename sanitizes to it, a table if that filename
\* ends in .csv and a byte buffer if not.
C15_KeysAndKinds ==
  \A r \in Requests :
    (pc[r] = "prepared" /\ \A i \in DOMAIN all_files[r] : ~ParseFails(all_files[r][i]))
      => LET files == all_files[r]
             context == file_context[r]
             keys == Range(context.keys)
         IN /\ \A i \in DOMAIN files :
                 \E k \in keys : IsSanitized(files[i].filename, k)
            /\ Cardinality(keys) = Len(context.keys)
            /\ DOMAIN context.obj = keys
            /\ \A k \in keys :
                 LET from == { i \in DOMAIN files : IsSanitized(files[i].filename, k) }
                 IN /\ Range(k) \subseteq NameChars
                    /\ from # {}
                    /\ \A i \in from : context.obj[k].file >= i
                    /\ context.obj[k].file \in from
                    /\ context.obj[k].kind =
                         IF HasCsvSuffix(files[context.obj[k].file].filename)
                           THEN "DataFrame" ELSE "BytesIO"

\* C15 witness: a prepared context for three files that parse, two of
\* which have different filenames and one key, the earlier a .csv file and
\* the later not, the third with the suffix in capitals.
C15_Witness ==
  \E r \in Requests :
    /\ pc[r] = "prepared"
    /\ Len(all_files[r]) = 3
    /\ \A i \in DOMAIN all_files[r] : ~ParseFails(all_files[r][i])
    /\ HasCsvSuffix(all_files[r][1].filename)
    /\ ~HasCsvSuffix(all_files[r][2].filename)
    /\ \E k \in Range(file_context[r].keys) :
         /\ IsSanitized(all_files[r][1].filename, k)
         /\ IsSanitized(all_files[r][2].filename, k)
    /\ all_files[r][3].filename = <<"d", ".", "C", "S", "V">>

\* No numeric-library scalar occurs in val, as an item, a key or a value,
\* at any depth.
RECURSIVE HoldsNoLibraryScalar(_)
HoldsNoLibraryScalar(val) ==
  IF val.t = "list"
    THEN \A i \in DOMAIN val.v : HoldsNoLibraryScalar(val.v[i])
  ELSE IF val.t = "dict"
    THEN \A i \in DOMAIN val.v :
           /\ HoldsNoLibraryScalar(val.v[i][1])
           /\ HoldsNoLibraryScalar(val.v[i][2])
  ELSE val.t \notin {"np.integer", "np.floating", "np.bool_"}

\* C16: the converted value has the shape of the value the script left,
\* with every numeric-library scalar at every depth replaced by the equal
\* native value and every other leaf as it was, and converting it again
\* changes nothing.
C16_EveryScalarIsNative ==
  \A r \in Requests :
    pc[r] = "converted"
      => LET raw == ValueOf(execution_scope[r][N_result])
             out == outcome[r].result
         IN /\ IsNativeOf(out, raw)
            /\ HoldsNoLibraryScalar(out)
            /\ ConvertToNativeTypes(out) = out

\* The lines of a response that are fences, opening or closing.
IsFenceLine(tok) == tok \in {"FENCE", "FENCE_PYTHON", "FENCE_PYTHON3"}

\* The content of the first fenced block of a text: what stands between
\* the line of its opening fence and the line of the next fence.
BlockContent(text) ==
  LET fences == { i \in DOMAIN text : IsFenceLine(text[i]) }
      open == CHOOSE i \in fences : \A j \in fences : i <= j
      later == { j \in fences : j > open }
      close == IF later = {} THEN Len(text) + 2
               ELSE CHOOSE j \in later : \A k \in later : j <= k
  IN SubSeq(text, open + 2, close - 2)

\* C17: in every attempt in which the model answers with a text, a script
\* is executed, and it is the content of the fenced block of the text
\* when the text holds one, and the whole text when it holds none.
C17_ScriptIsTheBlock ==
  [][\A r \in Requests, text \in ModelTexts :
       Attempt(r, text)
         => /\ executed'[r] = executed[r] + 1
            /\ generated_code'[r] =
                 IF \E i \in DOMAIN text : IsFenceLine(text[i])
                   THEN BlockContent(text) ELSE text]_vars

\* C18: a run sends at most max_retries messages and executes at most one
\* script per message; when it ends, it ends by returning an outcome tagged
\* success or error; and with max_retries = 0 it returns an error outcome
\* having sent and executed nothing.
C18_RunEndsWithAnOutcome ==
  \A r \in Requests :
    /\ Len(chat[r]) <= max_retries
    /\ executed[r] <= Len(chat[r])
    /\ runpc[r] \in {"returned", "raised"}
         => /\ runpc[r] = "returned"
            /\ outcome[r].status \in {"success", "error"}
    /\ (max_retries = 0 /\ runpc[r] = "returned")
         => /\ chat[r] = <<>>
            /\ executed[r] = 0
            /\ outcome[r].status = "error"

====
